---- MODULE Spec2Model ----
(***************************************************************************)
(* Model of process_frequencies.py: the merge/diff operators on transit    *)
(* shapes and the per-route reconcile loop of main().                      *)
(*                                                                         *)
(* Geometry.  Every shape runs along one straight street, parallel to the  *)
(* x axis of the projected (metre) coordinate system, either on the axis   *)
(* or beside it at a lateral offset smaller than bTol, as two shapes of    *)
(* the same street drawn independently do.  Coordinates are whole numbers  *)
(* of hundredths of a millimetre.  A LineString is its coordinate sequence *)
(* <<p1, ..., pn>> of points <<x, y>>.  The candidates of a route are      *)
(* two-vertex lines drawn west to east.  The polygon line.buffer(d) is the *)
(* corridor around the line: a rectangle of half-width d along it and a    *)
(* round cap at either end, which shapely draws as a polygon of 16         *)
(* segments a quarter circle.  It is kept as the record [lo, hi, y, d] of  *)
(* the line's extent, its lateral position and the distance in metres.  A  *)
(* line beside the corridor's line at lateral distance dy runs inside the  *)
(* corridor up to Reach(d, dy) beyond the ends of that line, where its     *)
(* parallel crosses the polygon of the cap.  The result of a shapely set   *)
(* operation is a record [type, geoms]: the geometry type shapely reports  *)
(* and its member lines.                                                   *)
(***************************************************************************)
EXTENDS Integers, Sequences, FiniteSets

\* Program constants (metres).
TOL == 5
bTol == 1

\* Coordinate units in a metre of the projection.
Metre == 100000

Metres(n) == n * Metre

\* Lateral positions of the shapes: on the axis and 0.6 m beside it.
Lanes == {0, (3 * Metre) \div 5}

\* Bounds of the model.
MaxCoord == 12
MaxCands == 3
MaxCount == 2
GridStep == 3

VARIABLES shape_list, seed_list, unique_list, routes, pc

vars == <<shape_list, seed_list, unique_list, routes, pc>>

----------------------------------------------------------------------------
\* Helpers on integers and sequences.

Min2(a, b) == IF a <= b THEN a ELSE b

Max2(a, b) == IF a >= b THEN a ELSE b

Abs(a) == IF a >= 0 THEN a ELSE 0 - a

SetMin(S) == CHOOSE x \in S : \A y \in S : x <= y

SetMax(S) == CHOOSE x \in S : \A y \in S : x >= y

RECURSIVE SumTo(_, _)
SumTo(f, n) == IF n = 0 THEN 0 ELSE f[n] + SumTo(f, n - 1)

RECURSIVE Concat(_)
Concat(ss) == IF ss = <<>> THEN <<>> ELSE Head(ss) \o Concat(Tail(ss))

----------------------------------------------------------------------------
\* shapely geometry along the street.

\* The stretch of the street the line covers, and its lateral position.
Lo(line) == SetMin({line[i][1] : i \in 1..Len(line)})

Hi(line) == SetMax({line[i][1] : i \in 1..Len(line)})

Y(line) == line[1][2]

\* LineString([(lo, y), (hi, y)])
Stretch(lo, hi, y) == << <<lo, y>>, <<hi, y>> >>

\* LineString.length: the sum of the lengths of its segments.
Length(line) ==
    SumTo([i \in 1..(Len(line) - 1) |-> Abs(line[i + 1][1] - line[i][1])],
          Len(line) - 1)

\* The vertices of a quarter of the round cap of line.buffer(1): 16 segments
\* from the direction of the line to the perpendicular, as <<along, across>>
\* in coordinate units.
CapVertices ==
    << <<100000, 0>>, <<99518, 9802>>, <<98079, 19509>>, <<95694, 29028>>,
       <<92388, 38268>>, <<88192, 47140>>, <<83147, 55557>>, <<77301, 63439>>,
       <<70711, 70711>>, <<63439, 77301>>, <<55557, 83147>>, <<47140, 88192>>,
       <<38268, 92388>>, <<29028, 95694>>, <<19509, 98079>>, <<9802, 99518>>,
       <<0, 100000>> >>

\* The quotient of num by den to the nearest unit.
Rounded(num, den) == (2 * num + den) \div (2 * den)

\* The segment of the cap of distance d that the parallel at dy crosses.
CapSegment(d, dy) ==
    SetMin({k \in 1..(Len(CapVertices) - 1) : dy <= d * CapVertices[k + 1][2]})

\* Where the parallel at dy crosses the segment from vertex v to vertex w.
ChordReach(d, dy, v, w) ==
    d * v[1] - Rounded((dy - d * v[2]) * (d * v[1] - d * w[1]),
                       d * w[2] - d * v[2])

\* How far beyond the ends of a line the polygon line.buffer(d), d in metres,
\* reaches on a parallel at lateral distance dy <= d.
Reach(d, dy) ==
    IF d = 0 THEN 0
    ELSE ChordReach(d, dy, CapVertices[CapSegment(d, dy)],
                    CapVertices[CapSegment(d, dy) + 1])

\* Variant of Buffer: the distance is dropped, the corridor is the line.
BufferNone(line, d) == [lo |-> Lo(line), hi |-> Hi(line), y |-> Y(line), d |-> 0]

\* line.buffer(d), d in metres: the corridor around the line.
Buffer(line, d) == [lo |-> Lo(line), hi |-> Hi(line), y |-> Y(line), d |-> d]

\* The line runs outside the corridor over its whole length.
Apart(line, area) == Abs(Y(line) - area.y) > Metres(area.d)

\* The ends of the corridor on the parallel of the line.
West(line, area) == area.lo - Reach(area.d, Abs(Y(line) - area.y))

East(line, area) == area.hi + Reach(area.d, Abs(Y(line) - area.y))

\* The geometry shapely returns for a list of line pieces.
LineGeometry(geoms) ==
    [type |-> IF Len(geoms) = 1 THEN "LineString"
              ELSE IF Len(geoms) = 0 THEN "GeometryCollection"
              ELSE "MultiLineString",
     geoms |-> geoms]

\* The part of a west-to-east two-vertex line from l to h.
Cut(line, l, h) ==
    IF l < h THEN [type |-> "LineString", geoms |-> <<Stretch(l, h, Y(line))>>]
    ELSE IF l = h THEN [type |-> "Point", geoms |-> <<>>]
    ELSE [type |-> "GeometryCollection", geoms |-> <<>>]

\* line.intersection(area) for a west-to-east two-vertex line.
Intersection(line, area) ==
    IF Apart(line, area) THEN [type |-> "GeometryCollection", geoms |-> <<>>]
    ELSE Cut(line, Max2(Lo(line), West(line, area)),
                   Min2(Hi(line), East(line, area)))

\* The stretches of the line west of w and east of e.
Outside(line, w, e) ==
    LineGeometry(
        (IF Lo(line) < w
         THEN <<Stretch(Lo(line), Min2(Hi(line), w), Y(line))>> ELSE <<>>)
        \o (IF e < Hi(line)
            THEN <<Stretch(Max2(Lo(line), e), Hi(line), Y(line))>> ELSE <<>>))

\* line.difference(area) for a west-to-east two-vertex line: the stretch of
\* the line west of the area and the stretch east of it.
Difference(line, area) ==
    IF Apart(line, area) THEN LineGeometry(<<line>>)
    ELSE Outside(line, West(line, area), East(line, area))

----------------------------------------------------------------------------
\* shapely.ops.linemerge: lines are edges between their end points; edges are
\* spliced through every end point that exactly two line ends share.

Reverse(line) == [i \in 1..Len(line) |-> line[Len(line) + 1 - i]]

\* The order of the nodes: by x, then by y.
PointBefore(p, q) == p[1] < q[1] \/ (p[1] = q[1] /\ p[2] <= q[2])

PointMin(S) == CHOOSE p \in S : \A q \in S : PointBefore(p, q)

EndNodes(line) == {line[1], line[Len(line)]}

\* Number of line ends of `lines` at node n.
Degree(lines, n) ==
    Cardinality({i \in 1..Len(lines) : lines[i][1] = n})
    + Cardinality({i \in 1..Len(lines) : lines[i][Len(lines[i])] = n})

Linked(lines, i, j) ==
    /\ i # j
    /\ \E n \in EndNodes(lines[i]) \cap EndNodes(lines[j]) : Degree(lines, n) = 2

\* The edges spliced with those of S, directly or through others.
Spliced(lines, S) ==
    S \cup {j \in 1..Len(lines) : \E i \in S : Linked(lines, i, j)}

RECURSIVE Chain(_, _, _)
Chain(lines, S, n) == IF n = 0 THEN S ELSE Chain(lines, Spliced(lines, S), n - 1)

Chains(lines) == {Chain(lines, {i}, Len(lines)) : i \in 1..Len(lines)}

ChainNodes(lines, chain) == UNION {EndNodes(lines[i]) : i \in chain}

FirstNode(ends, nodes) == IF ends # {} THEN PointMin(ends) ELSE PointMin(nodes)

\* A merged line starts at the first (westmost) node of its chain that is not
\* a splice point, or at its westmost node when the chain is a closed loop.
StartNode(lines, chain) ==
    FirstNode({n \in ChainNodes(lines, chain) : Degree(lines, n) # 2},
              ChainNodes(lines, chain))

\* The line as it is traversed away from `node`.
Oriented(line, node) == IF line[1] = node THEN line ELSE Reverse(line)

\* Coordinates of the merged line after `node`, over the edges not yet used.
RECURSIVE Walk(_, _, _)
RECURSIVE WalkEdge(_, _, _)
WalkEdge(lines, left, l) == Tail(l) \o Walk(lines, left, l[Len(l)])

NextEdges(lines, left, node) == {i \in left : node \in EndNodes(lines[i])}

Walk(lines, left, node) ==
    IF NextEdges(lines, left, node) = {} THEN <<>>
    ELSE WalkEdge(lines, left \ {SetMin(NextEdges(lines, left, node))},
                  Oriented(lines[SetMin(NextEdges(lines, left, node))], node))

WalkFrom(lines, chain, node) == <<node>> \o Walk(lines, chain, node)

MergedLine(lines, chain) == WalkFrom(lines, chain, StartNode(lines, chain))

\* Merged lines are listed by start node, then by first member edge.
StartsBefore(p, i, q, j) == IF p = q THEN i < j ELSE PointBefore(p, q)

ChainBefore(lines, c, d) ==
    StartsBefore(StartNode(lines, c), SetMin(c), StartNode(lines, d), SetMin(d))

SortChains(lines, S) ==
    [k \in 1..Cardinality(S) |->
        CHOOSE c \in S :
            Cardinality({d \in S : ChainBefore(lines, d, c)}) = k - 1]

MergedLines(lines, chains) ==
    [k \in 1..Len(chains) |-> MergedLine(lines, chains[k])]

linemerge(lines) ==
    LineGeometry(MergedLines(lines, SortChains(lines, Chains(lines))))

----------------------------------------------------------------------------
\* diff_layers and merge_layers.  A shape is the dict [line, count].

\* `g1diff > TOL` compares a geometry object with an int.  The geometry class
\* defines no ordering, so Python 2 falls back to its default ordering of
\* mixed types, in which a number is smaller than any other object.
GeomGreaterThanInt(geom, n) == TRUE

\* Variant of LongerThanTol: any line of positive length passes.
LongerThanZero(line) == Length(line) > 0

LongerThanTol(line) == Length(line) > Metres(TOL)

\* [dict(line=g, count=count) for g in lines]
WithCount(lines, count) ==
    [k \in 1..Len(lines) |-> [line |-> lines[k], count |-> count]]

\* The branches of diff_layers on the difference g1diff.
DiffPieces(g1diff, count) ==
    IF g1diff.type = "LineString" /\ GeomGreaterThanInt(g1diff, TOL)
    THEN WithCount(g1diff.geoms, count)
    ELSE IF g1diff.type = "MultiLineString"
    THEN WithCount(SelectSeq(linemerge(g1diff.geoms).geoms, LongerThanTol), count)
    ELSE <<>>

\* Variant of diff_layers: the pieces take the count of the second argument.
diff_layers_other_count(geom1, geom2) ==
    DiffPieces(Difference(geom1.line, geom2.line), geom2.count)

diff_layers(geom1, geom2) ==
    DiffPieces(Difference(geom1.line, geom2.line), geom1.count)

\* The branches of merge_layers on intersect_geom: the overlap lines kept.
RemergedLong(long) ==
    IF long # <<>> THEN SelectSeq(linemerge(long).geoms, LongerThanTol) ELSE <<>>

\* Variant of IntersectLines: the LineString branch is missing.
IntersectLinesNoLineString(intersect_geom) ==
    IF intersect_geom.type = "LineString" \/ intersect_geom.type = "Point"
    THEN <<>>
    ELSE RemergedLong(SelectSeq(intersect_geom.geoms, LongerThanTol))

IntersectLines(intersect_geom) ==
    IF intersect_geom.type = "LineString"
    THEN SelectSeq(intersect_geom.geoms, LongerThanTol)
    ELSE IF intersect_geom.type = "Point" THEN <<>>
    ELSE RemergedLong(SelectSeq(intersect_geom.geoms, LongerThanTol))

\* The return statements of merge_layers, given the overlap lines.
MergeResult(geom1, geom2, intersect) ==
    IF intersect = <<>>
    THEN [intersect |-> <<>>, uniques |-> <<geom1, geom2>>]
    ELSE [intersect |-> WithCount(intersect, geom1.count + geom2.count),
          uniques |->
              diff_layers(geom1, [count |-> geom2.count,
                                  line |-> Buffer(geom2.line, bTol)])
              \o diff_layers(geom2, [count |-> geom2.count,
                                     line |-> Buffer(geom1.line, bTol)])]

merge_layers(geom1, geom2) ==
    MergeResult(geom1, geom2,
                IntersectLines(Intersection(geom1.line, Buffer(geom2.line, bTol))))

----------------------------------------------------------------------------
\* main(): the reconcile loop of one route and its post-processing.

\* The for loop over seed_list[1:] of one round of the while loop; m is
\* merge_layers(candidate, shape) for the shape at the head of `shapes`.
RECURSIVE ScanShapes(_, _, _, _)
RECURSIVE ScanShape(_, _, _, _, _)
\* Variant of ScanShape: the scan goes on merging after the first match.
ScanShapeAll(candidate, shapes, merged_list, foundMatch, m) ==
    IF m.intersect # <<>>
    THEN ScanShapes(candidate, Tail(shapes),
                    merged_list \o m.intersect \o m.uniques, TRUE)
    ELSE ScanShapes(candidate, Tail(shapes),
                    Append(merged_list, Head(shapes)), foundMatch)

ScanShape(candidate, shapes, merged_list, foundMatch, m) ==
    IF ~foundMatch /\ m.intersect # <<>>
    THEN ScanShapes(candidate, Tail(shapes),
                    merged_list \o m.intersect \o m.uniques, TRUE)
    ELSE ScanShapes(candidate, Tail(shapes),
                    Append(merged_list, Head(shapes)), foundMatch)

ScanShapes(candidate, shapes, merged_list, foundMatch) ==
    IF shapes = <<>>
    THEN [merged_list |-> merged_list, foundMatch |-> foundMatch]
    ELSE ScanShape(candidate, shapes, merged_list, foundMatch,
                   merge_layers(candidate, Head(shapes)))

\* Variant of RoundResult: an unmatched candidate also stays in the worklist.
RoundResultRequeue(candidate, unique, scan) ==
    [seed_list |-> IF ~scan.foundMatch THEN Append(scan.merged_list, candidate)
                   ELSE scan.merged_list,
     unique_list |-> IF ~scan.foundMatch THEN Append(unique, candidate)
                     ELSE unique]

\* The end of a round: the candidate joins unique_list when nothing matched.
RoundResult(candidate, unique, scan) ==
    [seed_list |-> scan.merged_list,
     unique_list |-> IF ~scan.foundMatch THEN Append(unique, candidate)
                     ELSE unique]

\* One round of `while seed_list`.
RoundStep(seed, unique) ==
    RoundResult(Head(seed), unique, ScanShapes(Head(seed), Tail(seed), <<>>, FALSE))

\* The whole while loop: the accumulator when the worklist is empty.
RECURSIVE ReconcileLoop(_, _)
RECURSIVE ReconcileNext(_)
ReconcileNext(r) == ReconcileLoop(r.seed_list, r.unique_list)

ReconcileLoop(seed, unique) ==
    IF seed = <<>> THEN unique ELSE ReconcileNext(RoundStep(seed, unique))

\* The dict `segments` of CPython 2: an open-addressing hash table, a function
\* from the slots 0..size-1 to the key in the slot, EmptySlot when it is free.
\* The keys are the counts, ints that hash to themselves.
EmptySlot == 0 - 1

MinSize == 8

PerturbShift == 5

EmptyTable(size) == [slot \in 0..(size - 1) |-> EmptySlot]

TableSize(table) == Cardinality(DOMAIN table)

Used(table) == Cardinality({slot \in DOMAIN table : table[slot] # EmptySlot})

\* The probe sequence of a key: slot i & mask, then i = 5 * i + perturb + 1
\* with perturb shifted right after every probe, up to the first free slot.
RECURSIVE Probe(_, _, _, _)
Probe(table, size, i, perturb) ==
    IF table[i % size] = EmptySlot THEN i % size
    ELSE Probe(table, size, 5 * i + perturb + 1, perturb \div (2 ^ PerturbShift))

\* A new key is put in the first free slot of its probe sequence.
DictInsert(table, key) ==
    [table EXCEPT ![Probe(table, TableSize(table), key % TableSize(table), key)] = key]

\* The keys of the table in slot order: the order of `for cnt in segments`.
SlotKeys(table) ==
    SelectSeq([k \in 1..TableSize(table) |-> table[k - 1]],
              LAMBDA key : key # EmptySlot)

RECURSIVE InsertAll(_, _)
InsertAll(table, keys) ==
    IF keys = <<>> THEN table
    ELSE InsertAll(DictInsert(table, Head(keys)), Tail(keys))

\* The first power of two from size on that is greater than minused.
RECURSIVE NewSize(_, _)
NewSize(size, minused) ==
    IF size <= minused THEN NewSize(2 * size, minused) ELSE size

\* The room a rebuilt table is given: four times its keys, twice its keys
\* when it holds more than 50000.
MinUsed(used) == (IF used > 50000 THEN 2 ELSE 4) * used

\* A table that is two thirds full after an insertion is rebuilt with that
\* room; the keys are put in again in slot order.
Resized(table) ==
    IF 3 * Used(table) >= 2 * TableSize(table)
    THEN InsertAll(EmptyTable(NewSize(MinSize, MinUsed(Used(table)))), SlotKeys(table))
    ELSE table

\* if cnt not in segments: segments[cnt] = []
DictSetDefault(table, key) ==
    IF \E slot \in DOMAIN table : table[slot] = key THEN table
    ELSE Resized(DictInsert(table, key))

\* The table of `segments` after the loop over the shapes of unique_list.
RECURSIVE SegmentsTable(_, _)
SegmentsTable(unique, table) ==
    IF unique = <<>> THEN table
    ELSE SegmentsTable(Tail(unique), DictSetDefault(table, Head(unique).count))

\* The keys of `segments` in iteration order.
SegmentKeys(unique) == SlotKeys(SegmentsTable(unique, EmptyTable(MinSize)))

\* [s['line'] for s in segments[cnt]]
LinesOf(group) == [k \in 1..Len(group) |-> group[k].line]

\* segments[cnt]: the shapes of the accumulator with that count, in order.
Segments(unique, cnt) == SelectSeq(unique, LAMBDA s : s.count = cnt)

\* One entry for each line of a geometry.
EntriesOf(geom, cnt) ==
    [i \in 1..Len(geom.geoms) |->
        [count |-> cnt, line |-> LineGeometry(<<geom.geoms[i]>>)]]

\* Variant of CoalesceKeys: one entry per merged line of every group.
CoalescePerLine(unique, keys) ==
    Concat([k \in 1..Len(keys) |->
               EntriesOf(linemerge(LinesOf(Segments(unique, keys[k]))), keys[k])])

CoalesceKeys(unique, keys) ==
    [k \in 1..Len(keys) |->
        [count |-> keys[k], line |-> linemerge(LinesOf(Segments(unique, keys[k])))]]

\* Grouping by count and linemerge of every group.
Coalesce(unique) ==
    CoalesceKeys(unique, SegmentKeys(unique))

----------------------------------------------------------------------------
\* The candidates of a route.

GridCoords(step) == {Metres(x) : x \in {x \in 0..MaxCoord : x % step = 0}}

Lines(step) ==
    {Stretch(c[1], c[2], y) :
        c \in {c \in GridCoords(step) \X GridCoords(step) : c[1] < c[2]},
        y \in Lanes}

Shapes(step) == [line : Lines(step), count : 1..MaxCount]

\* Lists of up to two candidates take any whole-metre end points; the grid of
\* the end points coarsens by GridStep with every further candidate.
CoordStep(n) == IF n <= 2 THEN 1 ELSE GridStep ^ (n - 2)

CandidateShapes(n) == Shapes(CoordStep(n))

\* The two candidates of a partial overlap of collinear segments:
\* [(0,0)-(10,0)] with count 2 and [(5,0)-(15,0)] with count 4.
ScenarioLists ==
    {<<[line |-> Stretch(0, Metres(10), 0), count |-> 2],
       [line |-> Stretch(Metres(5), Metres(15), 0), count |-> 4]>>}

\* Before the routes are processed.
Init ==
    /\ shape_list = <<>>
    /\ seed_list = <<>>
    /\ unique_list = <<>>
    /\ routes = <<>>
    /\ pc = "load"

\* The body of `for route_id, shape_list in routes.iteritems()` up to the
\* while loop, for the candidates of one route.
StartRoute ==
    /\ pc = "load"
    /\ \/ \E n \in 1..MaxCands :
              \E f \in [1..n -> CandidateShapes(n)] :
                  /\ \E i \in 1..n : Lo(f[i].line) = 0
                  /\ shape_list' = f
       \/ \E f \in ScenarioLists : shape_list' = f
    /\ seed_list' = shape_list'
    /\ unique_list' = <<>>
    /\ pc' = "loop"
    /\ UNCHANGED routes

Round ==
    /\ pc = "loop"
    /\ seed_list # <<>>
    /\ \E r \in {RoundStep(seed_list, unique_list)} :
          /\ seed_list' = r.seed_list
          /\ unique_list' = r.unique_list
    /\ UNCHANGED <<shape_list, routes, pc>>

PostProcess ==
    /\ pc = "loop"
    /\ seed_list = <<>>
    /\ unique_list' = Coalesce(unique_list)
    /\ routes' = unique_list'
    /\ pc' = "done"
    /\ UNCHANGED <<shape_list, seed_list>>

Next == StartRoute \/ Round \/ PostProcess

Spec == Init /\ [][Next]_vars

----------------------------------------------------------------------------
\* Vocabulary of the properties.  Distances d are in metres.

\* Length of the stretch two lines have in common.
SharedLength(l1, l2) ==
    IF Y(l1) = Y(l2)
    THEN Max2(0, Min2(Hi(l1), Hi(l2)) - Max2(Lo(l1), Lo(l2)))
    ELSE 0

\* Length of the stretch of the street along which both lines run, on the
\* axis or beside it.
AlongLength(l1, l2) == Max2(0, Min2(Hi(l1), Hi(l2)) - Max2(Lo(l1), Lo(l2)))

\* The lateral distance of the two lines is at most d.
Beside(l, m, d) == Abs(Y(l) - Y(m)) <= Metres(d)

\* How far beyond the ends of m the parallel of l runs inside m.buffer(d).
EndReach(l, m, d) == Reach(d, Abs(Y(l) - Y(m)))

\* Length of the stretch of line l that lies inside m.buffer(d).
NearLength(l, m, d) ==
    IF Beside(l, m, d)
    THEN Max2(0, Min2(Hi(l), Hi(m) + EndReach(l, m, d))
                 - Max2(Lo(l), Lo(m) - EndReach(l, m, d)))
    ELSE 0

\* Line l lies inside line m.
Inside(l, m) == Y(l) = Y(m) /\ Lo(m) <= Lo(l) /\ Hi(l) <= Hi(m)

\* Line l lies inside m.buffer(d).
WithinDist(l, m, d) ==
    /\ Beside(l, m, d)
    /\ Lo(m) - EndReach(l, m, d) <= Lo(l)
    /\ Hi(l) <= Hi(m) + EndReach(l, m, d)

\* Line l has no stretch inside m.buffer(d).
BeyondDist(l, m, d) == NearLength(l, m, d) = 0

\* Ordered pairs of distinct worklist positions.
WorklistPairs ==
    {p \in (1..Len(seed_list)) \X (1..Len(seed_list)) : p[1] # p[2]}

Overlapping(a, b) == merge_layers(a, b).intersect # <<>>

AllPieces(m) == m.intersect \o m.uniques

Range(seq) == {seq[k] : k \in 1..Len(seq)}

LoopFinished == pc = "loop" /\ seed_list = <<>>

\* Sum of the counts of those of a, b whose own geometry contains line l.
ContainingCount(l, a, b) ==
    (IF Inside(l, a.line) THEN a.count ELSE 0)
    + (IF Inside(l, b.line) THEN b.count ELSE 0)

----------------------------------------------------------------------------
\* C1 (as stated): every piece returned by merge_layers(a, b) for an
\* overlapping pair, overlap or residual, carries the sum of the counts of
\* exactly those of a, b whose own geometry contains the piece.
C1_CountOfContainingInputs ==
    \A p \in WorklistPairs :
        LET a == seed_list[p[1]]
            b == seed_list[p[2]]
        IN  Overlapping(a, b) =>
                \A x \in Range(AllPieces(merge_layers(a, b))) :
                    x.count = ContainingCount(x.line, a, b)

\* C1 (amended): an overlap piece carries a.count + b.count and lies inside a
\* and inside the bTol buffer of b; a residual piece of an overlapping pair
\* carries a.count and lies inside a with no stretch inside the bTol buffer
\* of b, or carries b.count and lies inside b with no stretch inside the bTol
\* buffer of a; a pair without overlap is returned as it is.
C1_CountWithinTolerance ==
    \A p \in WorklistPairs :
        LET a == seed_list[p[1]]
            b == seed_list[p[2]]
            m == merge_layers(a, b)
        IN  IF m.intersect = <<>>
            THEN m.uniques = <<a, b>>
            ELSE /\ \A x \in Range(m.intersect) :
                        /\ x.count = a.count + b.count
                        /\ Inside(x.line, a.line)
                        /\ WithinDist(x.line, b.line, bTol)
                 /\ \A x \in Range(m.uniques) :
                        \/ /\ x.count = a.count
                           /\ Inside(x.line, a.line)
                           /\ BeyondDist(x.line, b.line, bTol)
                        \/ /\ x.count = b.count
                           /\ Inside(x.line, b.line)
                           /\ BeyondDist(x.line, a.line, bTol)

\* An overlapping pair of collinear lines with different counts whose overlap
\* piece reaches beyond b and which leaves residual pieces of both.
C1_Witness ==
    \E p \in WorklistPairs :
        LET a == seed_list[p[1]]
            b == seed_list[p[2]]
            m == merge_layers(a, b)
        IN  /\ m.intersect # <<>>
            /\ Y(a.line) = Y(b.line)
            /\ a.count # b.count
            /\ ~Inside(m.intersect[1].line, b.line)
            /\ \E x \in Range(m.uniques) : x.count = a.count
            /\ \E x \in Range(m.uniques) : x.count = b.count

----------------------------------------------------------------------------
\* The lines of an entry of the final partition.
EntryLines(entry) == Range(entry.line.geoms)

\* The longest stretch two lines of distinct entries of the final partition
\* may share is `most`.
EntriesShareAtMost(most) ==
    pc = "done" =>
        \A i, j \in 1..Len(routes) :
            i # j => \A l1 \in EntryLines(routes[i]) :
                         \A l2 \in EntryLines(routes[j]) :
                             SharedLength(l1, l2) <= most

\* C2 (as stated): two distinct pieces of the final partition share no
\* stretch longer than TOL, and meet at most in a region within the bTol
\* buffer.
C2_DisjointWithinBuffer ==
    EntriesShareAtMost(Metres(TOL)) /\ EntriesShareAtMost(Metres(bTol + bTol))

\* C2 (amended): when the loop has finished, of any two pieces of the
\* accumulator the earlier one has no stretch longer than TOL inside the bTol
\* buffer of the later one, and the two share no stretch longer than TOL.
C2_AccumulatorDisjointUpToTol ==
    LoopFinished =>
        \A i, j \in 1..Len(unique_list) :
            /\ i < j =>
                   NearLength(unique_list[i].line, unique_list[j].line, bTol)
                       <= Metres(TOL)
            /\ i # j =>
                   SharedLength(unique_list[i].line, unique_list[j].line)
                       <= Metres(TOL)

\* An accumulator at the end of the loop with two pieces that share a stretch
\* wider than the bTol buffer.
C2_Witness ==
    /\ LoopFinished
    /\ \E i, j \in 1..Len(unique_list) :
          /\ i # j
          /\ SharedLength(unique_list[i].line, unique_list[j].line)
                 > Metres(bTol + bTol)

----------------------------------------------------------------------------
\* The unresolved overlap of a worklist: the total length of street along
\* which two of its items run together.
Unresolved(seed) ==
    SumTo([k \in 1..(Len(seed) * Len(seed)) |->
              LET i == ((k - 1) \div Len(seed)) + 1
                  j == ((k - 1) % Len(seed)) + 1
              IN  IF i < j THEN AlongLength(seed[i].line, seed[j].line) ELSE 0],
          Len(seed) * Len(seed))

\* No two pieces of one merge run along the same stretch of the street.
PiecesDisjoint(m) ==
    \A i, j \in 1..Len(AllPieces(m)) :
        i # j => AlongLength(AllPieces(m)[i].line, AllPieces(m)[j].line) = 0

\* A round that merges lowers the unresolved overlap of the worklist and its
\* pieces are disjoint; a round that does not merge shortens the worklist by
\* one and does not raise the unresolved overlap; the loop goes on while the
\* worklist is not empty and ends when it is.
RoundProgress ==
    /\ (pc = "loop" /\ seed_list # <<>>) =>
           /\ pc' = "loop"
           /\ \A i \in 2..Len(seed_list) :
                  Overlapping(seed_list[1], seed_list[i]) =>
                      PiecesDisjoint(merge_layers(seed_list[1], seed_list[i]))
           /\ IF unique_list' = unique_list
              THEN Unresolved(seed_list') < Unresolved(seed_list)
              ELSE /\ Len(seed_list') = Len(seed_list) - 1
                   /\ Unresolved(seed_list') <= Unresolved(seed_list)
    /\ (pc = "loop" /\ seed_list = <<>>) => pc' = "done"

\* C3: the loop of every candidate list reaches an empty worklist after
\* finitely many rounds: every merge round lowers the unresolved overlap of
\* the worklist, with pairwise disjoint pieces, and every other round
\* shortens the worklist by one without raising the unresolved overlap.
C3_Termination == [][RoundProgress]_vars

\* Three candidates that were all merged into one piece.
C3_Witness ==
    /\ pc = "done"
    /\ Len(shape_list) = 3
    /\ \E k \in 1..Len(routes) :
          routes[k].count
              = shape_list[1].count + shape_list[2].count + shape_list[3].count

----------------------------------------------------------------------------
\* difference(a, b): diff_layers on the line of b itself.
DirectDiff(a, b) == diff_layers(a, [line |-> Buffer(b.line, 0), count |-> b.count])

\* C4: no piece returned by diff_layers, and no overlap or residual piece
\* returned by merge_layers for an overlapping pair, has length <= TOL.
C4_ToleranceFloor ==
    \A p \in WorklistPairs :
        LET a == seed_list[p[1]]
            b == seed_list[p[2]]
        IN  /\ \A x \in Range(DirectDiff(a, b)) : Length(x.line) > Metres(TOL)
            /\ Overlapping(a, b) =>
                   \A x \in Range(AllPieces(merge_layers(a, b))) :
                       Length(x.line) > Metres(TOL)

----------------------------------------------------------------------------
\* reconcile(x): the loop and the post-processing on the candidate list x.
Reconcile(x) == Coalesce(ReconcileLoop(x, <<>>))

\* Every entry of the final partition is one straight two-vertex line.
SimplePieces(partition) ==
    \A k \in 1..Len(partition) :
        /\ partition[k].line.type = "LineString"
        /\ Len(partition[k].line.geoms[1]) = 2

\* The entries of a partition of simple pieces, taken as candidates.
AsCandidates(partition) ==
    [k \in 1..Len(partition) |->
        [line |-> partition[k].line.geoms[1], count |-> partition[k].count]]

\* C5: reconcile run on the pieces of a final partition performs no merge and
\* yields the same partition again.
C5_Idempotent ==
    (pc = "done" /\ SimplePieces(routes)) =>
        /\ ReconcileLoop(AsCandidates(routes), <<>>) = AsCandidates(routes)
        /\ Reconcile(AsCandidates(routes)) = routes

----------------------------------------------------------------------------
\* The candidate list is that of Scenario B.
ScenarioB == shape_list \in ScenarioLists

\* The stretches of line l to the west and to the east of the stretch lo..hi.
Remainders(l, lo, hi) ==
    (IF Lo(l) < lo THEN {Stretch(Lo(l), Min2(Hi(l), lo), Y(l))} ELSE {})
    \cup (IF hi < Hi(l) THEN {Stretch(Max2(Lo(l), hi), Hi(l), Y(l))} ELSE {})

\* merge_layers(a, b) splits the two collinear segments at the end points of
\* the stretch of a that lies within d of b: the overlap piece is that
\* stretch with the sum of the counts, and the residual pieces are remainders
\* of a and of b beyond distance d of the other, with their own counts, every
\* remainder longer than TOL among them.
SplitAt(a, b, d) ==
    LET m == merge_layers(a, b)
        lo == Max2(Lo(a.line), Lo(b.line) - Metres(d))
        hi == Min2(Hi(a.line), Hi(b.line) + Metres(d))
        ra == Remainders(a.line, Lo(b.line) - Metres(d), Hi(b.line) + Metres(d))
        rb == Remainders(b.line, Lo(a.line) - Metres(d), Hi(a.line) + Metres(d))
    IN  /\ m.intersect = <<[line |-> Stretch(lo, hi, Y(a.line)),
                            count |-> a.count + b.count]>>
        /\ \A x \in Range(m.uniques) :
               \/ x.count = a.count /\ x.line \in ra
               \/ x.count = b.count /\ x.line \in rb
        /\ \A l \in ra :
               Length(l) > Metres(TOL) =>
                   [line |-> l, count |-> a.count] \in Range(m.uniques)
        /\ \A l \in rb :
               Length(l) > Metres(TOL) =>
                   [line |-> l, count |-> b.count] \in Range(m.uniques)

\* Two collinear worklist segments with a common stretch longer than TOL are
\* split at the ends of the stretch of the first within d of the second.
SplitsWithin(d) ==
    \A p \in WorklistPairs :
        SharedLength(seed_list[p[1]].line, seed_list[p[2]].line) > Metres(TOL) =>
            SplitAt(seed_list[p[1]], seed_list[p[2]], d)

\* C6 (as stated): Scenario B yields [0,5] count 2, [5,10] count 6 and
\* [10,15] count 4; two segments with a common stretch longer than TOL are
\* split exactly at the end points of the common stretch.
C6_SplitAtCommonStretch ==
    /\ (ScenarioB /\ LoopFinished) =>
           Range(unique_list)
               = {[line |-> Stretch(0, Metres(5), 0), count |-> 2],
                  [line |-> Stretch(Metres(5), Metres(10), 0), count |-> 6],
                  [line |-> Stretch(Metres(10), Metres(15), 0), count |-> 4]}
    /\ SplitsWithin(0)

\* C6 (amended): Scenario B yields the overlap piece [4,10] count 6 and
\* residual pieces only in [0,4] with count 2 and in [11,15] with count 4;
\* two collinear segments with a common stretch longer than TOL are split at
\* the end points of the stretch of the first that lies within bTol of the
\* second.
C6_SplitAtBufferedStretch ==
    /\ (ScenarioB /\ LoopFinished) =>
           /\ [line |-> Stretch(Metres(4), Metres(10), 0), count |-> 6]
                  \in Range(unique_list)
           /\ \A x \in Range(unique_list) :
                  \/ x = [line |-> Stretch(Metres(4), Metres(10), 0), count |-> 6]
                  \/ /\ x.count = 2
                     /\ Inside(x.line, Stretch(0, Metres(4), 0))
                  \/ /\ x.count = 4
                     /\ Inside(x.line, Stretch(Metres(11), Metres(15), 0))
    /\ SplitsWithin(bTol)

\* Scenario B after its loop, with three pieces in the accumulator.
C6_Witness == ScenarioB /\ LoopFinished /\ Len(unique_list) = 3

----------------------------------------------------------------------------
\* No two lines of the list have a stretch in common.
NoLengthOverlap(list) ==
    \A i, j \in 1..Len(list) :
        i # j => SharedLength(list[i].line, list[j].line) = 0

\* No line of the list has a stretch longer than TOL inside the bTol buffer
\* of another.
NoNearOverlap(list) ==
    \A i, j \in 1..Len(list) :
        i # j => NearLength(list[i].line, list[j].line, bTol) <= Metres(TOL)

\* With candidates as `quiet` describes, merge_layers reports no overlap for
\* any pair the round asks about (the probe and another item of the
\* worklist), no candidate is replaced, and the accumulator ends as the list
\* of the candidates, unchanged.
NoChange(quiet) ==
    (quiet /\ pc = "loop") =>
        /\ \A j \in 2..Len(seed_list) :
               ~Overlapping(seed_list[1], seed_list[j])
        /\ unique_list \o seed_list = shape_list
        /\ seed_list = <<>> => unique_list = shape_list

\* C7 (as stated): when no two candidates of the route have a stretch in
\* common, merge_layers reports no overlap for any pair it is asked about, no
\* candidate is replaced, and the accumulator ends as the list of the
\* candidates.
C7_NoOverlapNoChange == NoChange(NoLengthOverlap(shape_list))

\* C7 (amended): when no candidate of the route has a stretch longer than TOL
\* inside the bTol buffer of another candidate, merge_layers reports no
\* overlap for any pair it is asked about, no candidate is replaced, and the
\* accumulator ends as the list of the candidates, unchanged.
C7_NoNearOverlapNoChange == NoChange(NoNearOverlap(shape_list))

\* Candidates none of which runs near another, two of which touch in one
\* point, after the loop.
C7_Witness ==
    /\ LoopFinished
    /\ Len(shape_list) >= 2
    /\ NoNearOverlap(shape_list)
    /\ Y(shape_list[1].line) = Y(shape_list[2].line)
    /\ Hi(shape_list[1].line) = Lo(shape_list[2].line)
    /\ unique_list = shape_list

----------------------------------------------------------------------------
Counts(list) == {list[k].count : k \in 1..Len(list)}

TotalLength(lines) == SumTo([k \in 1..Len(lines) |-> Length(lines[k])], Len(lines))

\* C8 (as stated): the final partition has one entry per connected piece of
\* the line-merge of a count group, each a single connected line.
C8_EntryPerConnectedPiece ==
    pc = "done" =>
        \A k \in 1..Len(routes) : routes[k].line.type = "LineString"

\* The accumulator the loop of the route ended with.
Accumulated == ReconcileLoop(shape_list, <<>>)

\* The final partition has one entry for every count of the accumulator acc,
\* with all the merged lines of that count.
GroupedByCount(acc) ==
    /\ Len(routes) = Cardinality(Counts(acc))
    /\ \A c \in Counts(acc) :
           \E k \in 1..Len(routes) :
               /\ routes[k].count = c
               /\ TotalLength(routes[k].line.geoms)
                      = TotalLength(LinesOf(Segments(acc, c)))
               /\ Len(routes[k].line.geoms) >= 1
               /\ (routes[k].line.type = "LineString")
                      <=> (Len(routes[k].line.geoms) = 1)
               /\ (routes[k].line.type = "MultiLineString")
                      <=> (Len(routes[k].line.geoms) > 1)

\* C8 (amended): the final partition has exactly one entry per count of the
\* accumulator; the entry holds all the merged lines of its group, the whole
\* length of the group, as a LineString when the group merges into one line
\* and as a MultiLineString of its k lines otherwise.
C8_EntryPerCount == pc = "done" => GroupedByCount(Accumulated)

\* A final partition with an entry of several disconnected lines.
C8_Witness ==
    /\ pc = "done"
    /\ \E k \in 1..Len(routes) :
          /\ routes[k].line.type = "MultiLineString"
          /\ Len(routes[k].line.geoms) >= 2

----------------------------------------------------------------------------
\* Positions in Tail(seed_list) of the items the probe overlaps.
Hits == {i \in 1..(Len(seed_list) - 1) :
            Overlapping(seed_list[1], seed_list[i + 1])}

GreedyRound ==
    (pc = "loop" /\ seed_list # <<>>) =>
        LET c == Head(seed_list)
            rest == Tail(seed_list)
        IN  IF Hits # {}
            THEN LET i == SetMin(Hits)
                     m == merge_layers(c, rest[i])
                 IN  /\ seed_list' = SubSeq(rest, 1, i - 1) \o m.intersect
                                       \o m.uniques \o SubSeq(rest, i + 1, Len(rest))
                     /\ c \notin Range(AllPieces(m))
                     /\ rest[i] \notin Range(AllPieces(m))
                     /\ unique_list' = unique_list
            ELSE /\ seed_list' = rest
                 /\ unique_list' = Append(unique_list, c)

\* C9: a round replaces the probe and the first item it overlaps by the pieces
\* of their merge, in place, leaves the items before and after unchanged and
\* in order, and leaves the accumulator; without overlap the probe moves to
\* the accumulator and the rest of the worklist stays as it is.
C9_GreedyFirstMatch == [][GreedyRound]_vars

\* After the first round of three candidates: the probe was merged with the
\* second, the third, which the probe overlaps too, is still in the worklist.
C9_Witness ==
    /\ pc = "loop"
    /\ Len(shape_list) = 3
    /\ unique_list = <<>>
    /\ seed_list # shape_list
    /\ Overlapping(shape_list[1], shape_list[2])
    /\ Overlapping(shape_list[1], shape_list[3])
    /\ seed_list[Len(seed_list)] = shape_list[3]

----------------------------------------------------------------------------
\* A partition as a set of (count, stretches) entries.
Partition(result) ==
    {[count |-> result[k].count,
      lines |-> {<<Lo(l), Hi(l), Y(l)>> : l \in EntryLines(result[k])}] :
        k \in 1..Len(result)}

\* C10: merge_layers(a, b) reports an overlap exactly when merge_layers(b, a)
\* does, and reconciling [a, b] gives the partition of reconciling [b, a].
C10_OrderIndependentPair ==
    /\ \A p \in WorklistPairs :
           Overlapping(seed_list[p[1]], seed_list[p[2]])
               <=> Overlapping(seed_list[p[2]], seed_list[p[1]])
    /\ (pc = "done" /\ Len(shape_list) = 2) =>
           Partition(routes) = Partition(Reconcile(Reverse(shape_list)))
====
